---- MODULE Spec2Model ----
(***************************************************************************)
(* Model of RadixSort11 (src/src/radix.cpp): the float key transform, the  *)
(* three-histogram pass, the prefix-sum conversion and the three scatter   *)
(* passes, together with the ordering scan of src/src/main.cpp.            *)
(*                                                                         *)
(* A uint32_t is held as a pair <<hi, lo>> of 16-bit halves (value         *)
(* hi * 65536 + lo), because the model checker's integers are 32-bit       *)
(* signed.  All uint32_t arithmetic below is modulo 2^32 on that pair.     *)
(***************************************************************************)
EXTENDS Integers, Sequences, FiniteSets, TLC

VARIABLES
    farray,     \* the caller's input buffer, viewed as uint32_t (array)
    sorted,     \* the caller's output buffer, viewed as uint32_t (sort)
    elements,   \* the element count passed to RadixSort11
    b0, b1, b2, \* the three 2048-entry histogram / offset tables
    i,          \* the loop counter
    pc,         \* position in RadixSort11
    input0,     \* history: farray at call time
    sorted0,    \* history: sorted at call time
    written,    \* history: the store indices of the latest scatter pass
    reads,      \* history: number of buffer element reads so far
    fault,      \* TRUE once a store index fell outside the buffer
    fa, fb,     \* key-transform harness: two bit patterns
    ka, kb,     \* key-transform harness: their flipped keys
    ra,         \* key-transform harness: IFloatFlip of ka
    xa          \* key-transform harness: fa after FloatFlipX

vars == <<farray, sorted, elements, b0, b1, b2, i, pc, input0, sorted0,
          written, reads, fault, fa, fb, ka, kb, ra, xa>>

sortVars == <<farray, sorted, elements, b0, b1, b2, i, input0, sorted0,
              written, reads, fault>>

flipVars == <<fa, fb, ka, kb, ra, xa>>

----------------------------------------------------------------------------
(* Bounds *)

MaxLen == 3

(* Program constants *)

kHist == 2048

----------------------------------------------------------------------------
(* uint32_t arithmetic on <<hi, lo>> pairs *)

W(h, l) == <<h, l>>

Zero == W(0, 0)
One == W(0, 1)
MaxWord == W(65535, 65535)
SignBit == W(32768, 0)

FromNat(n) == W(n \div 65536, n % 65536)

Add32(a, b) ==
    LET lo == a[2] + b[2]
        hi == a[1] + b[1] + (lo \div 65536)
    IN  W(hi % 65536, lo % 65536)

Sub32(a, b) ==
    LET lo == a[2] - b[2]
        br == IF lo < 0 THEN 1 ELSE 0
        hi == a[1] - b[1] - br
    IN  W((hi + 65536) % 65536, (lo + 65536) % 65536)

Lt32(a, b) == a[1] < b[1] \/ (a[1] = b[1] /\ a[2] < b[2])

Le32(a, b) == a = b \/ Lt32(a, b)

RECURSIVE Xor16(_, _, _)
Xor16(a, b, n) ==
    IF n = 0 THEN 0
    ELSE (((a % 2) + (b % 2)) % 2) + 2 * Xor16(a \div 2, b \div 2, n - 1)

RECURSIVE Or16(_, _, _)
Or16(a, b, n) ==
    IF n = 0 THEN 0
    ELSE (IF (a % 2) + (b % 2) > 0 THEN 1 ELSE 0)
         + 2 * Or16(a \div 2, b \div 2, n - 1)

Xor32(a, b) == W(Xor16(a[1], b[1], 16), Xor16(a[2], b[2], 16))

Or32(a, b) == W(Or16(a[1], b[1], 16), Or16(a[2], b[2], 16))

\* f >> 31
Shr31(f) == W(0, f[1] \div 32768)

----------------------------------------------------------------------------
(* The key transform *)

\* the mutation of FloatFlip that flips the sign bit of every value
FlipSignOnly(f) == Xor32(f, SignBit)

\* mask = -int32_t(f >> 31) | 0x80000000;  return f ^ mask;
FloatFlip(f) ==
    LET mask == Or32(Sub32(Zero, Shr31(f)), SignBit)
    IN  Xor32(f, mask)

\* the mutation of FloatFlipX that flips every bit of every value
FlipXAllBits(f) == Xor32(f, MaxWord)

\* the in-place variant used by the first scatter pass
FloatFlipX(f) ==
    LET mask == Or32(Sub32(Zero, Shr31(f)), SignBit)
    IN  Xor32(f, mask)

\* the mutation of IFloatFlip whose mask lacks the sign bit
IFloatFlipNoSign(f) ==
    LET mask == Sub32(Shr31(f), One)
    IN  Xor32(f, mask)

\* mask = ((f >> 31) - 1) | 0x80000000;  return f ^ mask;
IFloatFlip(f) ==
    LET mask == Or32(Sub32(Shr31(f), One), SignBit)
    IN  Xor32(f, mask)

\* the 11-bit digit accessors _0, _1, _2

\* (x & 0x7FF)
Digit0(x) == x[2] % 2048

\* the mutation of _1 into a second _0
Digit1Low(x) == x[2] % 2048

\* (x >> 11 & 0x7FF)
Digit1(x) == (x[2] \div 2048) + 32 * (x[1] % 64)

\* the mutation of _2 into a second _1
Digit2Mid(x) == (x[2] \div 2048) + 32 * (x[1] % 64)

\* (x >> 22)
Digit2(x) == x[1] \div 64

----------------------------------------------------------------------------
(* Float comparison of two bit patterns, as the ordering scan of main does *)

Sign(x) == x[1] \div 32768

\* the pattern without its sign bit
Mag(x) == W(x[1] % 32768, x[2])

\* exponent all ones, mantissa not zero
IsNaN(x) == Lt32(W(32640, 0), Mag(x))

\* a > b on floats: false when either is a NaN; -0.0 and +0.0 are equal
FloatGT(a, b) ==
    /\ ~IsNaN(a)
    /\ ~IsNaN(b)
    /\ IF Sign(a) = 0
       THEN IF Sign(b) = 0 THEN Lt32(Mag(b), Mag(a))
            ELSE Mag(a) # Zero \/ Mag(b) # Zero
       ELSE IF Sign(b) = 0 THEN FALSE
            ELSE Lt32(Mag(a), Mag(b))

----------------------------------------------------------------------------
(* Buffers and tables *)

Buf == 0 .. (MaxLen - 1)

Bucket == 0 .. (kHist - 1)

\* bit patterns the input is drawn from
PosZero == W(0, 0)
NegZero == W(32768, 0)
PosOneUlp == W(16256, 1)
PosOneMid == W(16256, 2048)
NegOne == W(49024, 0)
NegOneUlp == W(49024, 1)
PosNaN == W(32704, 0)
NegNaN == W(65472, 0)

\* finite inputs: both zeros, two positive and two negative values that
\* differ in the low or the middle digit only
Vals == {PosZero, NegZero, PosOneUlp, PosOneMid, NegOne, NegOneUlp}

\* arbitrary patterns: a NaN of either sign among finite values
AnyVals == {NegNaN, NegOne, NegZero, PosOneUlp, PosOneMid, PosNaN}

\* what the output buffer, and the input buffer past the last element, hold
\* before the call
Fill == W(57005, 48879)

\* what the stack holds where the tables are declared; no table entry is read
\* before the clearing loop has written it
Garbage == W(52428, 52428)

\* array[k] or sort[k]
Load(buf, k) == IF k \in Buf THEN buf[k] ELSE Fill

InBuffer(idx) == idx[1] = 0 /\ idx[2] \in Buf

\* sort[idx] = val, or array[idx] = val
Store(buf, idx, val) ==
    IF InBuffer(idx) THEN [buf EXCEPT ![idx[2]] = val] ELSE buf

\* the mutation of ++b[pos] into --b[pos]
PreDec(w) == Sub32(w, One)

\* ++b[pos]
PreInc(w) == Add32(w, One)

\* the mutation of the loop condition into i <= elements
InLoopInclusive(k, n) == k <= n

\* the loop condition i < elements
InLoop(k, n) == k < n

\* the mutation of the prefix-sum body that drops the -1 bias
PrefixStepNoBias(st, d) ==
    [sum0 |-> Add32(b0[d], st.sum0), o0 |-> <<st.sum0>>,
     sum1 |-> Add32(b1[d], st.sum1), o1 |-> <<st.sum1>>,
     sum2 |-> Add32(b2[d], st.sum2), o2 |-> <<st.sum2>>]

\* the body of the prefix-sum loop for bucket d: st.sum0, st.sum1, st.sum2 are
\* the running totals on entry; the result holds the totals on exit and the
\* values stored into b0[d], b1[d], b2[d]
PrefixStep(st, d) ==
    [sum0 |-> Add32(b0[d], st.sum0), o0 |-> <<Sub32(st.sum0, One)>>,
     sum1 |-> Add32(b1[d], st.sum1), o1 |-> <<Sub32(st.sum1, One)>>,
     sum2 |-> Add32(b2[d], st.sum2), o2 |-> <<Sub32(st.sum2, One)>>]

\* the prefix-sum loop over buckets lo..hi, in increasing order, started with
\* the running totals of st; the result holds the totals on exit and the
\* values stored into buckets lo..hi.  The range is halved to keep the
\* evaluation shallow, and each half's result is bound as a value (a choice
\* from a one-element set) so that it is computed once.
RECURSIVE PrefixLoop(_, _, _)
PrefixLoop(st, lo, hi) ==
    IF lo = hi THEN PrefixStep(st, lo)
    ELSE LET mid == (lo + hi) \div 2
         IN  CHOOSE r \in
                 {CHOOSE q \in
                      {[sum0 |-> second.sum0, o0 |-> first.o0 \o second.o0,
                        sum1 |-> second.sum1, o1 |-> first.o1 \o second.o1,
                        sum2 |-> second.sum2, o2 |-> first.o2 \o second.o2] :
                       second \in {PrefixLoop(first, mid + 1, hi)}} : TRUE :
                  first \in {PrefixLoop(st, lo, mid)}} : TRUE

----------------------------------------------------------------------------
(* RadixSort11 *)

\* the state on entry to RadixSort11(farray, sorted, elements), the first
\* `elements` cells of farray drawn from V
Entry(V) ==
    /\ elements \in 0 .. MaxLen
    /\ farray \in {f \in [Buf -> V \cup {Fill}] :
                      \A j \in Buf : IF j < elements THEN f[j] \in V
                                     ELSE f[j] = Fill}
    /\ sorted = [j \in Buf |-> Fill]
    /\ b0 = [d \in Bucket |-> Garbage]
    /\ b1 = [d \in Bucket |-> Garbage]
    /\ b2 = [d \in Bucket |-> Garbage]
    /\ i = 0
    /\ pc = "clear"
    /\ input0 = farray
    /\ sorted0 = sorted
    /\ written = << >>
    /\ reads = 0
    /\ fault = FALSE
    /\ fa = Zero /\ fb = Zero /\ ka = Zero /\ kb = Zero /\ ra = Zero /\ xa = Zero

Init == Entry(Vals)

AnyInit == Entry(AnyVals)

\* for (i = 0; i < kHist * 3; i++) b0[i] = 0;
ClearHist ==
    /\ pc = "clear"
    /\ b0' = [d \in Bucket |-> Zero]
    /\ b1' = [d \in Bucket |-> Zero]
    /\ b2' = [d \in Bucket |-> Zero]
    /\ i' = 0
    /\ pc' = "hist"
    /\ UNCHANGED <<farray, sorted, elements, input0, sorted0, written, reads,
                   fault, flipVars>>

\* one iteration of the histogramming pass
HistStep ==
    /\ pc = "hist"
    /\ InLoop(i, elements)
    /\ LET fi == FloatFlip(Load(farray, i))
       IN  /\ b0' = [b0 EXCEPT ![Digit0(fi)] = Add32(@, One)]
           /\ b1' = [b1 EXCEPT ![Digit1(fi)] = Add32(@, One)]
           /\ b2' = [b2 EXCEPT ![Digit2(fi)] = Add32(@, One)]
    /\ i' = i + 1
    /\ reads' = reads + 1
    /\ fault' = (fault \/ i \notin Buf)
    /\ UNCHANGED <<farray, sorted, elements, pc, input0, sorted0, written,
                   flipVars>>

HistDone ==
    /\ pc = "hist"
    /\ ~InLoop(i, elements)
    /\ pc' = "prefix"
    /\ UNCHANGED <<sortVars, flipVars>>

\* the prefix-sum loop over the 2048 buckets of the three tables
PrefixSum ==
    /\ pc = "prefix"
    /\ \E st \in {PrefixLoop([sum0 |-> Zero, sum1 |-> Zero, sum2 |-> Zero],
                               0, kHist - 1)} :
           /\ b0' = [d \in Bucket |-> st.o0[d + 1]]
           /\ b1' = [d \in Bucket |-> st.o1[d + 1]]
           /\ b2' = [d \in Bucket |-> st.o2[d + 1]]
    /\ i' = 0
    /\ pc' = "passA"
    /\ UNCHANGED <<farray, sorted, elements, input0, sorted0, written, reads,
                   fault, flipVars>>

\* the mutation of the low-digit scatter that stores into array, not sort
PassAInPlace ==
    /\ pc = "passA"
    /\ InLoop(i, elements)
    /\ LET fi == FloatFlipX(Load(farray, i))
           pos == Digit0(fi)
           idx == PreInc(b0[pos])
       IN  /\ b0' = [b0 EXCEPT ![pos] = idx]
           /\ farray' = Store(farray, idx, fi)
           /\ fault' = (fault \/ i \notin Buf \/ ~InBuffer(idx))
           /\ written' = IF i = 0 THEN <<idx>> ELSE Append(written, idx)
    /\ i' = i + 1
    /\ reads' = reads + 1
    /\ UNCHANGED <<sorted, elements, b1, b2, pc, input0, sorted0, flipVars>>

\* one iteration of the low-digit scatter, array -> sort, writing flipped keys
PassA ==
    /\ pc = "passA"
    /\ InLoop(i, elements)
    /\ LET fi == FloatFlipX(Load(farray, i))
           pos == Digit0(fi)
           idx == PreInc(b0[pos])
       IN  /\ b0' = [b0 EXCEPT ![pos] = idx]
           /\ sorted' = Store(sorted, idx, fi)
           /\ fault' = (fault \/ i \notin Buf \/ ~InBuffer(idx))
           /\ written' = IF i = 0 THEN <<idx>> ELSE Append(written, idx)
    /\ i' = i + 1
    /\ reads' = reads + 1
    /\ UNCHANGED <<farray, elements, b1, b2, pc, input0, sorted0, flipVars>>

PassADone ==
    /\ pc = "passA"
    /\ ~InLoop(i, elements)
    /\ i' = 0
    /\ pc' = "passB"
    /\ UNCHANGED <<farray, sorted, elements, b0, b1, b2, input0, sorted0,
                   written, reads, fault, flipVars>>

\* one iteration of the mid-digit scatter, sort -> array
PassB ==
    /\ pc = "passB"
    /\ InLoop(i, elements)
    /\ LET si == Load(sorted, i)
           pos == Digit1(si)
           idx == PreInc(b1[pos])
       IN  /\ b1' = [b1 EXCEPT ![pos] = idx]
           /\ farray' = Store(farray, idx, si)
           /\ fault' = (fault \/ i \notin Buf \/ ~InBuffer(idx))
           /\ written' = IF i = 0 THEN <<idx>> ELSE Append(written, idx)
    /\ i' = i + 1
    /\ reads' = reads + 1
    /\ UNCHANGED <<sorted, elements, b0, b2, pc, input0, sorted0, flipVars>>

PassBDone ==
    /\ pc = "passB"
    /\ ~InLoop(i, elements)
    /\ i' = 0
    /\ pc' = "passC"
    /\ UNCHANGED <<farray, sorted, elements, b0, b1, b2, input0, sorted0,
                   written, reads, fault, flipVars>>

\* one iteration of the high-digit scatter, array -> sort, flipping back
PassC ==
    /\ pc = "passC"
    /\ InLoop(i, elements)
    /\ LET ai == Load(farray, i)
           pos == Digit2(ai)
           idx == PreInc(b2[pos])
       IN  /\ b2' = [b2 EXCEPT ![pos] = idx]
           /\ sorted' = Store(sorted, idx, IFloatFlip(ai))
           /\ fault' = (fault \/ i \notin Buf \/ ~InBuffer(idx))
           /\ written' = IF i = 0 THEN <<idx>> ELSE Append(written, idx)
    /\ i' = i + 1
    /\ reads' = reads + 1
    /\ UNCHANGED <<farray, elements, b0, b1, pc, input0, sorted0, flipVars>>

PassCDone ==
    /\ pc = "passC"
    /\ ~InLoop(i, elements)
    /\ pc' = "done"
    /\ UNCHANGED <<sortVars, flipVars>>

Next ==
    \/ ClearHist
    \/ HistStep
    \/ HistDone
    \/ PrefixSum
    \/ PassA
    \/ PassADone
    \/ PassB
    \/ PassBDone
    \/ PassC
    \/ PassCDone

Spec == Init /\ [][Next]_vars

AnySpec == AnyInit /\ [][Next]_vars

----------------------------------------------------------------------------
(* The key transform applied to pairs of bit patterns *)

\* sign, exponent and mantissa fields the patterns are built from: the
\* smallest and largest exponents and mantissas and some between
Exps == {0, 1, 127, 254, 255}

Mants == {0, 1, 2048, 4194304, 8388607}

Pattern(s, e, m) == W(s * 32768 + e * 128 + (m \div 65536), m % 65536)

Patterns == {Pattern(s, e, m) : s \in {0, 1}, e \in Exps, m \in Mants}

PosInf == Pattern(0, 255, 0)

NegInf == Pattern(1, 255, 0)

FlipInit ==
    /\ fa \in Patterns
    /\ fb \in Patterns
    /\ ka = Zero /\ kb = Zero /\ ra = Zero /\ xa = Zero
    /\ pc = "flip"
    /\ elements = 0
    /\ farray = [j \in Buf |-> Fill]
    /\ sorted = [j \in Buf |-> Fill]
    /\ b0 = << >> /\ b1 = << >> /\ b2 = << >>
    /\ i = 0
    /\ input0 = farray
    /\ sorted0 = sorted
    /\ written = << >>
    /\ reads = 0
    /\ fault = FALSE

\* FloatFlip(fa), FloatFlip(fb), and FloatFlipX on a copy of fa
Flip ==
    /\ pc = "flip"
    /\ ka' = FloatFlip(fa)
    /\ kb' = FloatFlip(fb)
    /\ xa' = FloatFlipX(fa)
    /\ pc' = "flipped"
    /\ UNCHANGED <<sortVars, fa, fb, ra>>

\* IFloatFlip of the flipped fa
Unflip ==
    /\ pc = "flipped"
    /\ ra' = IFloatFlip(ka)
    /\ pc' = "unflipped"
    /\ UNCHANGED <<sortVars, fa, fb, ka, kb, xa>>

FlipNext ==
    \/ Flip
    \/ Unflip

FlipSpec == FlipInit /\ [][FlipNext]_vars

----------------------------------------------------------------------------
(* Properties *)

\* the positions of the elements
Idx == 0 .. (elements - 1)

NoNaNInput == \A j \in Idx : ~IsNaN(input0[j])

\* a <= b on floats
FloatLE(a, b) == ~IsNaN(a) /\ ~IsNaN(b) /\ ~FloatGT(a, b)

\* a == b on floats
FloatEQ(a, b) == FloatLE(a, b) /\ FloatLE(b, a)

\* how often v occurs among the elements of buf
Count(buf, v) == Cardinality({j \in Idx : buf[j] = v})

\* the flipped keys of the first n cells of buf, as a sequence
RECURSIVE Keys(_, _)
Keys(buf, n) ==
    IF n = 0 THEN << >> ELSE Append(Keys(buf, n - 1), FloatFlip(buf[n - 1]))

(* C1: when no input element is a NaN, on return every adjacent pair of the
   output satisfies output[k-1] <= output[k] under float comparison. *)
C1_Ordered ==
    (pc = "done" /\ NoNaNInput) =>
        /\ ~fault
        /\ \A k \in 1 .. (elements - 1) : FloatLE(sorted[k - 1], sorted[k])

C1_Witness ==
    /\ pc = "done"
    /\ elements = 3
    /\ input0[0] = PosOneMid /\ input0[1] = PosOneUlp /\ input0[2] = NegOneUlp
    /\ sorted[0] = NegOneUlp /\ sorted[1] = PosOneUlp /\ sorted[2] = PosOneMid

(* C2: for any bit patterns, NaNs included, on return the multiset of the
   output's elements equals the multiset of the input's elements at call
   time. *)
C2_Permutation ==
    pc = "done" =>
        \A j \in Idx :
            /\ Count(sorted, sorted[j]) = Count(input0, sorted[j])
            /\ Count(sorted, input0[j]) = Count(input0, input0[j])

C2_Witness ==
    /\ pc = "done"
    /\ elements = 3
    /\ input0[0] = PosNaN /\ input0[1] = NegNaN /\ input0[2] = PosNaN
    /\ sorted[0] = NegNaN /\ sorted[1] = PosNaN /\ sorted[2] = PosNaN

(* C3: IFloatFlip(FloatFlip(x)) = x for every pattern x of a non-NaN float,
   both zeros and both infinities included, and FloatFlipX computes the value
   FloatFlip computes. *)
C3_RoundTrip ==
    (pc = "unflipped" /\ ~IsNaN(fa)) => (ra = fa /\ xa = ka)

C3_Witness ==
    /\ pc = "unflipped"
    /\ fa = NegInf
    /\ ra = NegInf

(* C4: for non-NaN floats a < b (-0.0 and +0.0 equal), FloatFlip of a's
   pattern is below FloatFlip of b's pattern as unsigned integers. *)
C4_OrderPreserved ==
    (pc = "flipped" /\ FloatGT(fb, fa)) => Lt32(ka, kb)

C4_Witness ==
    /\ pc = "flipped"
    /\ fa = Pattern(1, 127, 1)
    /\ fb = Pattern(1, 127, 0)
    /\ FloatGT(fb, fa)

(* C5: with elements = 0 the call reads and writes no element of either
   buffer, the output buffer keeps its prior contents, and the call runs to
   its end without an access outside the buffers. *)
C5_Empty ==
    elements = 0 =>
        /\ reads = 0
        /\ written = << >>
        /\ sorted = sorted0
        /\ farray = input0
        /\ ~fault
        /\ (pc # "done" => ENABLED Next)

C5_Witness ==
    /\ elements = 0
    /\ pc = "done"
    /\ sorted = sorted0

(* C6: sorting an already non-decreasing sequence of non-NaN floats yields,
   at every position, a value that compares equal to the input's value
   there. *)
C6_SortedInputKept ==
    ( /\ pc = "done"
      /\ NoNaNInput
      /\ \A k \in 1 .. (elements - 1) : ~FloatGT(input0[k - 1], input0[k]) )
    => \A j \in Idx : FloatEQ(sorted[j], input0[j])

C6_Witness ==
    /\ pc = "done"
    /\ elements = 3
    /\ input0[0] = NegOne /\ input0[1] = PosZero /\ input0[2] = NegZero
    /\ sorted[0] = NegOne /\ sorted[1] = NegZero /\ sorted[2] = PosZero

\* the histogram pass, the prefix sum and pass A are running or have just ended
BeforePassB ==
    \/ pc \in {"clear", "hist", "prefix", "passA"}
    \/ (pc = "passB" /\ i = 0)

(* C7: in every state before the first iteration of pass B the input buffer
   equals its contents at call time, and only pass B writes the input
   buffer. *)
C7_InputFrame ==
    /\ [](BeforePassB => farray = input0)
    /\ [][farray' # farray => (pc = "passB" /\ pc' = "passB")]_vars

C7_Witness ==
    /\ pc = "passB"
    /\ i = 0
    /\ elements = 3
    /\ sorted # sorted0
    /\ farray = input0

\* the number of keys of ks whose digit is below d
Below(ks, Dig(_), d) == Cardinality({j \in 1 .. Len(ks) : Dig(ks[j]) < d})

\* table b holds, for every bucket, the number of keys with a smaller digit,
\* minus 1 modulo 2^32
OffsetsOf(b, ks, Dig(_)) ==
    \A d \in Bucket :
        /\ b[d] = Sub32(FromNat(Below(ks, Dig, d)), One)
        /\ Below(ks, Dig, d) = 0 => (b[d] = MaxWord /\ PreInc(b[d]) = Zero)

(* C8: after the prefix sum and before any scatter pass, each table holds at
   bucket d the number of input elements whose key digit is less than d,
   minus 1 in unsigned 32-bit arithmetic; a bucket preceded only by empty
   buckets holds 2^32 - 1, whose pre-increment is 0. *)
C8_Offsets ==
    (pc = "passA" /\ i = 0) =>
        \A ks \in {Keys(input0, elements)} :
            /\ OffsetsOf(b0, ks, Digit0)
            /\ OffsetsOf(b1, ks, Digit1)
            /\ OffsetsOf(b2, ks, Digit2)

C8_Witness ==
    /\ pc = "passA"
    /\ i = 0
    /\ elements = 3
    /\ input0[0] = PosOneUlp /\ input0[1] = PosZero /\ input0[2] = PosOneMid
    /\ b0[0] = MaxWord
    /\ b0[1] = FromNat(1)
    /\ b0[2] = FromNat(2)

Same(x) == x

\* the pass that read src and wrote dst was a stable counting sort by digit
\* Dig of Key(element), storing Out(element)
StableScatter(src, dst, Key(_), Dig(_), Out(_)) ==
    /\ Len(written) = elements
    /\ \A j, k \in Idx : j < k => written[j + 1] # written[k + 1]
    /\ \A j \in Idx : dst[written[j + 1][2]] = Out(src[j])
    /\ \A j, k \in Idx :
        ( \/ Dig(Key(src[j])) < Dig(Key(src[k]))
          \/ (Dig(Key(src[j])) = Dig(Key(src[k])) /\ j < k) )
        => written[j + 1][2] < written[k + 1][2]

(* C9: each scatter pass is a stable counting sort by its digit: every store
   index lies in 0..n-1, each index is written exactly once per pass, a
   smaller digit lands before a larger one and equal digits keep their scan
   order. *)
C9_StableScatter ==
    /\ ~fault
    /\ \A j \in 1 .. Len(written) :
           written[j][1] = 0 /\ written[j][2] \in Idx
    /\ (pc = "passB" /\ i = 0) =>
           StableScatter(farray, sorted, FloatFlipX, Digit0, FloatFlipX)
    /\ (pc = "passC" /\ i = 0) =>
           StableScatter(sorted, farray, Same, Digit1, Same)
    /\ pc = "done" =>
           StableScatter(farray, sorted, Same, Digit2, IFloatFlip)

C9_Witness ==
    /\ pc = "passB"
    /\ i = 0
    /\ elements = 3
    /\ input0[0] = PosOneUlp /\ input0[1] = PosZero /\ input0[2] = PosOneMid
    /\ written = <<FromNat(2), FromNat(0), FromNat(1)>>

(* C10: for any bit patterns, NaNs included, the output is non-decreasing in
   flipped-key order; so a NaN with the sign bit set precedes every non-NaN
   value, a NaN with the sign bit clear follows every non-NaN value, and the
   non-NaN values are in non-decreasing float order. *)
C10_KeyOrder ==
    pc = "done" =>
        /\ \A k \in 1 .. (elements - 1) :
               Le32(FloatFlip(sorted[k - 1]), FloatFlip(sorted[k]))
        /\ \A j, k \in Idx :
            /\ (IsNaN(sorted[j]) /\ Sign(sorted[j]) = 1 /\ ~IsNaN(sorted[k]))
                   => j < k
            /\ (IsNaN(sorted[k]) /\ Sign(sorted[k]) = 0 /\ ~IsNaN(sorted[j]))
                   => j < k
            /\ (j < k /\ ~IsNaN(sorted[j]) /\ ~IsNaN(sorted[k]))
                   => ~FloatGT(sorted[j], sorted[k])

C10_Witness ==
    /\ pc = "done"
    /\ elements = 3
    /\ input0[0] = PosNaN /\ input0[1] = NegOne /\ input0[2] = NegNaN
    /\ sorted[0] = NegNaN /\ sorted[1] = NegOne /\ sorted[2] = PosNaN

====
